---- MODULE Spec2Model ----
(***************************************************************************)
(* Model of the batch preprocessing pipeline:                              *)
(*   scripts/preprocess/batch_process.py  (scan, dispatch, manifest merge) *)
(*   scripts/preprocess/hdf_to_overlay.py (value decoder, overlay writer)  *)
(*                                                                         *)
(* A date string 'YYYY-MM-DD' is represented by the number made of its     *)
(* digits (2025-08-01 is 20250801): for the zero-padded four-digit years   *)
(* used here the order of the numbers is the order of the strings.         *)
(* An ordinal date code 'YYYYDDD' is represented by the number it spells.  *)
(***************************************************************************)
EXTENDS Integers, Sequences, FiniteSets, TLC

(***************************************************************************)
(* Bounds of the model.                                                    *)
(***************************************************************************)
MaxFiles == 2
MaxRuns == 2
MaxParallel == 2
MaxCells == 2
MaxNames == 2

(***************************************************************************)
(* Product catalog (PRODUCT_PATTERNS), in dictionary order.  The pattern   *)
(* r'<PREFIX>\.A(\d{7})\.' is represented by its literal prefix.           *)
(***************************************************************************)
PRODUCT_PATTERNS ==
  << [key |-> "viirs_ndvi", pattern |-> "VNP13C2", id |-> "viirs_ndvi",
      name |-> "VIIRS NDVI", units |-> "unitless", var |-> "None",
      extension |-> ".h5", min |-> "None", max |-> "None"],
     [key |-> "modis_snow", pattern |-> "MOD10C1", id |-> "modis_snow",
      name |-> "MODIS Snow Cover", units |-> "%",
      var |-> "MOD_Grid_Snow_5km/Data Fields/NDSI_Snow_Cover",
      extension |-> ".hdf", min |-> "0", max |-> "100"],
     [key |-> "modis_albedo", pattern |-> "MCD43C3", id |-> "modis_albedo_sw",
      name |-> "MODIS Albedo (Shortwave WSA)", units |-> "albedo (0-1)",
      var |-> "MCD_CMG_BRDF/Data Fields/Albedo_WSA_shortwave",
      extension |-> ".hdf", min |-> "0", max |-> "1"],
     [key |-> "modis_nbar", pattern |-> "MCD43C4", id |-> "modis_nbar_band1",
      name |-> "MODIS NBAR Band1", units |-> "reflectance (0-1)",
      var |-> "MCD_CMG_Nbar/Data Fields/Nadir_Reflectance_Band1",
      extension |-> ".hdf", min |-> "0", max |-> "0.4"],
     [key |-> "modis_lst", pattern |-> "MOD11C3", id |-> "modis_lst",
      name |-> "MODIS Land Surface Temperature", units |-> "Kelvin",
      var |-> "LST_Day_CMG",
      extension |-> ".hdf", min |-> "230", max |-> "330"] >>

NoConfig == [key |-> "None"]

(***************************************************************************)
(* Calendar arithmetic of datetime(year, 1, 1) + timedelta(days = n):      *)
(* the proleptic Gregorian ordinal of the date, moved by n, converted back *)
(* to year, month, day.                                                    *)
(***************************************************************************)
DaysInMonthTable == << 31, 28, 31, 30, 31, 30, 31, 31, 30, 31, 30, 31 >>

DaysBeforeMonthTable == << 0, 31, 59, 90, 120, 151, 181, 212, 243, 273, 304, 334 >>

is_leap(year) == year % 4 = 0 /\ (year % 100 # 0 \/ year % 400 = 0)

days_before_year(year) ==
  LET y == year - 1
  IN  y * 365 + (y \div 4) - (y \div 100) + (y \div 400)

ymd2ord(year, month, day) ==
  days_before_year(year)
    + DaysBeforeMonthTable[month]
    + (IF month > 2 /\ is_leap(year) THEN 1 ELSE 0)
    + day

ord2ymd(ordinal) ==
  LET n0   == ordinal - 1
      n400 == n0 \div 146097
      r400 == n0 % 146097
      n100 == r400 \div 36524
      r100 == r400 % 36524
      n4   == r100 \div 1461
      r4   == r100 % 1461
      n1   == r4 \div 365
      n    == r4 % 365
      year == n400 * 400 + 1 + n100 * 100 + n4 * 4 + n1
  IN  IF n1 = 4 \/ n100 = 4
      THEN << year - 1, 12, 31 >>
      ELSE LET leapyear == n1 = 3 /\ (n4 # 24 \/ n100 = 3)
               month0   == (n + 50) \div 32
               prec0    == DaysBeforeMonthTable[month0]
                             + (IF month0 > 2 /\ leapyear THEN 1 ELSE 0)
               back     == prec0 > n
               month    == IF back THEN month0 - 1 ELSE month0
               prec     == IF back
                           THEN prec0 - (DaysInMonthTable[month]
                                  + (IF month = 2 /\ leapyear THEN 1 ELSE 0))
                           ELSE prec0
           IN  << year, month, n - prec + 1 >>

\* date.strftime('%Y-%m-%d'): the digits of the zero-padded string.
strftime(ymd) == ymd[1] * 10000 + ymd[2] * 100 + ymd[3]

\* Off by one: timedelta(days = day_of_year) instead of day_of_year - 1.
parse_julian_date_off_by_one(year_day_str) ==
  LET year        == year_day_str \div 1000
      day_of_year == year_day_str % 1000
  IN  strftime(ord2ymd(ymd2ord(year, 1, 1) + day_of_year))

\* parse_julian_date: year = int(s[:4]), day_of_year = int(s[4:]).
parse_julian_date(year_day_str) ==
  LET year        == year_day_str \div 1000
      day_of_year == year_day_str % 1000
  IN  strftime(ord2ymd(ymd2ord(year, 1, 1) + (day_of_year - 1)))


(***************************************************************************)
(* Files of the source folder.  A file name is <prefix>.A<code>.<ver>.x    *)
(* followed by its suffix; the record keeps the parts the code looks at.   *)
(***************************************************************************)
AllFiles ==
  << [prefix |-> "VNP13C2", code |-> 2025213, ver |-> 1, suffix |-> ".h5"],
     [prefix |-> "VNP13C2", code |-> 2025213, ver |-> 2, suffix |-> ".h5"],
     [prefix |-> "VNP13C2", code |-> 2024366, ver |-> 2, suffix |-> ".H5"],
     [prefix |-> "MCD43C3", code |-> 2025001, ver |-> 61, suffix |-> ".hdf"],
     [prefix |-> "GLDAS", code |-> 2025001, ver |-> 1, suffix |-> ".hdf5"],
     [prefix |-> "VNP13C2", code |-> 2025001, ver |-> 2, suffix |-> ".txt"] >>

FileSet == { AllFiles[i] : i \in DOMAIN AllFiles }

\* str.lower() on the suffixes that occur.
lower(s) ==
  CASE s = ".H5" -> ".h5"
    [] s = ".HDF" -> ".hdf"
    [] s = ".HDF5" -> ".hdf5"
    [] OTHER -> s

\* re.search(config['pattern'], filename)
pattern_matches(pattern, filename) == filename.prefix = pattern

RECURSIVE detect_from(_, _)
detect_from(i, filename) ==
  IF i > Len(PRODUCT_PATTERNS)
  THEN << "None", NoConfig, 0 >>
  ELSE LET config == PRODUCT_PATTERNS[i]
       IN  IF pattern_matches(config.pattern, filename)
           THEN << config.key, config, parse_julian_date(filename.code) >>
           ELSE detect_from(i + 1, filename)

detect_product(filename) == detect_from(1, filename)

\* list.sort(key = date) and sorted(): stable, ascending.
RECURSIVE insert_by_date(_, _)
insert_by_date(x, s) ==
  IF s = << >> THEN << x >>
  ELSE IF x.date <= Head(s).date THEN << x >> \o s
  ELSE << Head(s) >> \o insert_by_date(x, Tail(s))

RECURSIVE sort_by_date(_)
sort_by_date(s) ==
  IF s = << >> THEN << >> ELSE insert_by_date(Head(s), sort_by_date(Tail(s)))

RECURSIVE insert_sorted(_, _)
insert_sorted(x, s) ==
  IF s = << >> THEN << x >>
  ELSE IF x <= Head(s) THEN << x >> \o s
  ELSE << Head(s) >> \o insert_sorted(x, Tail(s))

RECURSIVE sorted(_)
sorted(s) ==
  IF s = << >> THEN << >> ELSE insert_sorted(Head(s), sorted(Tail(s)))

RECURSIVE sorted_set(_)
sorted_set(S) ==
  IF S = {} THEN << >>
  ELSE LET m == CHOOSE x \in S : \A y \in S : x <= y
       IN  << m >> \o sorted_set(S \ {m})

seq_set(s) == { s[i] : i \in DOMAIN s }

\* Index of the first element of s with field key = k, or 0.
index_of_key(s, k) ==
  IF \E i \in DOMAIN s : s[i].key = k
  THEN CHOOSE i \in DOMAIN s : s[i].key = k /\ \A j \in 1..(i - 1) : s[j].key # k
  ELSE 0

\* files_by_product is an insertion-ordered dictionary: a sequence of
\* [key, files] entries.
RECURSIVE scan_loop(_, _, _, _)
scan_loop(glob, i, product_filter, acc) ==
  IF i > Len(glob) THEN acc
  ELSE LET file_path == glob[i]
           det       == detect_product(file_path)
           k         == index_of_key(acc, det[1])
           info      == [path |-> file_path, date |-> det[3], config |-> det[2]]
       IN  IF lower(file_path.suffix) \notin {".h5", ".hdf", ".hdf5"}
           THEN scan_loop(glob, i + 1, product_filter, acc)
           ELSE IF det[1] = "None"
           THEN scan_loop(glob, i + 1, product_filter, acc)
           ELSE IF product_filter # "None" /\ det[1] # product_filter
           THEN scan_loop(glob, i + 1, product_filter, acc)
           ELSE IF k = 0
           THEN scan_loop(glob, i + 1, product_filter,
                          Append(acc, [key |-> det[1], files |-> << info >>]))
           ELSE scan_loop(glob, i + 1, product_filter,
                          [acc EXCEPT ![k].files = Append(@, info)])

scan_folder(glob, product_filter) ==
  LET grouped == scan_loop(glob, 1, product_filter, << >>)
  IN  [k \in DOMAIN grouped |->
         [grouped[k] EXCEPT !.files = sort_by_date(@)]]

(***************************************************************************)
(* Manifest: the sequence manifest['overlays'] of records                  *)
(* [id, name, units, legend, dates].                                       *)
(***************************************************************************)
Legend == "data:image/png;base64"

index_of_id(overlays, id) ==
  IF \E i \in DOMAIN overlays : overlays[i].id = id
  THEN CHOOSE i \in DOMAIN overlays :
         overlays[i].id = id /\ \A j \in 1..(i - 1) : overlays[j].id # id
  ELSE 0

dates_of(files) == [i \in DOMAIN files |-> files[i].date]

\* One iteration of the loop of update_manifest, the existing record's dates
\* replaced by the run's.
merge_product_replacing(overlays, files) ==
  LET config == files[1].config
      dates  == sorted(dates_of(files))
      k      == index_of_id(overlays, config.id)
  IN  IF k # 0
      THEN [overlays EXCEPT ![k].dates = sorted_set(seq_set(dates))]
      ELSE Append(overlays, [id |-> config.id, name |-> config.name,
                             units |-> config.units, legend |-> Legend,
                             dates |-> dates])

\* One iteration of the loop of update_manifest, with ^ written for |.
merge_product_symmetric_difference(overlays, files) ==
  LET config == files[1].config
      dates  == sorted(dates_of(files))
      k      == index_of_id(overlays, config.id)
  IN  IF k # 0
      THEN LET existing_dates == seq_set(overlays[k].dates)
               all_dates      == sorted_set((seq_set(dates) \ existing_dates)
                                   \cup (existing_dates \ seq_set(dates)))
           IN  [overlays EXCEPT ![k].dates = all_dates]
      ELSE Append(overlays, [id |-> config.id, name |-> config.name,
                             units |-> config.units, legend |-> Legend,
                             dates |-> dates])

\* One iteration of the loop of update_manifest.
merge_product(overlays, files) ==
  LET config == files[1].config
      dates  == sorted(dates_of(files))
      k      == index_of_id(overlays, config.id)
  IN  IF k # 0
      THEN LET existing_dates == seq_set(overlays[k].dates)
               all_dates      == sorted_set(seq_set(dates) \cup existing_dates)
           IN  [overlays EXCEPT ![k].dates = all_dates]
      ELSE Append(overlays, [id |-> config.id, name |-> config.name,
                             units |-> config.units, legend |-> Legend,
                             dates |-> dates])

RECURSIVE merge_loop(_, _, _)
merge_loop(overlays, files_by_product, i) ==
  IF i > Len(files_by_product) THEN overlays
  ELSE merge_loop(merge_product(overlays, files_by_product[i].files),
                  files_by_product, i + 1)

\* update_manifest: the manifest written for the manifest read.
update_manifest(overlays, files_by_product) ==
  merge_loop(overlays, files_by_product, 1)


(***************************************************************************)
(* Value decoder (apply_packed_scaling of hdf_to_overlay.py).              *)
(* A number is a fraction [kind |-> "num", n, d] with d > 0; an attribute  *)
(* is absent ([kind |-> "none"]), a number, or a sequence of numbers       *)
(* ([kind |-> "seq", v]).  A cell of the decoded grid is [nan |-> TRUE] or *)
(* [nan |-> FALSE, n, d].  The raw grid holds 32-bit integers.             *)
(***************************************************************************)
NoneVal == [kind |-> "none"]

Num(n, d) == [kind |-> "num", n |-> n, d |-> d]

SeqVal(v) == [kind |-> "seq", v |-> v]

NaN == [nan |-> TRUE]

\* Integers up to 2^24 in magnitude are exact in float32.
F32Exact == 16777216

RECURSIVE f32_ulp(_, _)
f32_ulp(mag, u) == IF mag \div u < F32Exact THEN u ELSE f32_ulp(mag, 2 * u)

\* astype(np.float32) of an integer: round to a 24-bit significand, ties to even.
astype_float32(x) ==
  LET mag  == IF x < 0 THEN -x ELSE x
      u    == f32_ulp(mag, 1)
      q    == mag \div u
      r    == mag % u
      up   == 2 * r > u \/ (2 * r = u /\ q % 2 = 1)
      m    == IF up THEN (q + 1) * u ELSE q * u
  IN  IF mag <= F32Exact THEN x ELSE IF x < 0 THEN -m ELSE m

\* to_scalar(val, default)
to_scalar(val, default) ==
  IF val.kind = "none" THEN default
  ELSE IF val.kind = "seq"
       THEN IF Len(val.v) > 0 THEN val.v[1] ELSE default
       ELSE val

num_lt(x, y) == x.n * y.d < y.n * x.d

\* apply_packed_scaling on one cell: cast, fill mask on the raw value, range
\* mask on the cast value, then a * sf + ao (a not-a-number stays one).
decode_cell(raw, attrs) ==
  LET sf == to_scalar(attrs.scale_factor, Num(1, 1))
      ao == to_scalar(attrs.add_offset, Num(0, 1))
      vr == attrs.valid_range
      fv == attrs.FillValue
      a0 == [nan |-> FALSE, n |-> astype_float32(raw), d |-> 1]
      fv_scalar == IF fv.kind # "none" THEN to_scalar(fv, NoneVal) ELSE NoneVal
      a1 == IF fv_scalar.kind # "none" /\ raw * fv_scalar.d = fv_scalar.n
            THEN NaN ELSE a0
      a2 == IF vr.kind = "seq" /\ Len(vr.v) = 2
            THEN IF ~a1.nan /\ (num_lt(a1, vr.v[1]) \/ num_lt(vr.v[2], a1))
                 THEN NaN ELSE a1
            ELSE a1
  IN  IF a2.nan THEN NaN
      ELSE [nan |-> FALSE,
            n |-> a2.n * sf.n * ao.d + ao.n * sf.d * a2.d,
            d |-> a2.d * sf.d * ao.d]

apply_packed_scaling(arr, attrs) ==
  [i \in DOMAIN arr |-> decode_cell(arr[i], attrs)]

RawValues == { -3000, -1, 0, 5000, 10001, 16777217 }

Grids == UNION { [1..n -> RawValues] : n \in 1..MaxCells }

AttrChoices ==
  [ scale_factor : { NoneVal, Num(1, 10000), SeqVal(<< Num(1, 10000) >>),
                     Num(2, 1), SeqVal(<< >>) },
    add_offset   : { NoneVal, Num(0, 1), SeqVal(<< Num(-5, 1) >>) },
    valid_range  : { NoneVal, SeqVal(<< Num(0, 1), Num(10000, 1) >>),
                     SeqVal(<< Num(0, 1), Num(16777216, 1) >>),
                     SeqVal(<< Num(0, 1) >>) },
    FillValue    : { NoneVal, Num(-3000, 1), SeqVal(<< Num(-3000, 1) >>),
                     SeqVal(<< >>), Num(0, 1) } ]

(***************************************************************************)
(* Variable selection (choose_var of hdf_to_overlay.py).  A variable name  *)
(* is the sequence of its tokens, "/" being the path separator:            *)
(* "GRID/NDVI" is << "GRID", "/", "NDVI" >>.                               *)
(***************************************************************************)
NameChoices ==
  { << "GRID", "/", "NDVI" >>,
    << "NDVI" >>,
    << "QA" >>,
    << "GRID", "/", "QA" >>,
    << "EVI", "QA" >>,
    << "SWATH", "/", "NDVI" >> }

NameLists(lo) ==
  UNION { { l \in [1..n -> NameChoices] :
              \A i, j \in 1..n : i # j => l[i] # l[j] } : n \in lo..MaxNames }

Keywords == << "ndvi", "evi", "snow", "albedo", "nadir", "reflectance" >>

\* name.lower(), token by token.
lower_token(t) ==
  CASE t = "NDVI" -> "ndvi"
    [] t = "EVI" -> "evi"
    [] t = "QA" -> "qa"
    [] t = "GRID" -> "grid"
    [] t = "SWATH" -> "swath"
    [] OTHER -> t

\* x in name.lower()
contains(x, name) == \E i \in DOMAIN name : lower_token(name[i]) = x

\* c.split("/")[-1]
RECURSIVE leaf_from(_, _)
leaf_from(c, i) ==
  IF i = 0 \/ c[i] = "/" THEN SubSeq(c, i + 1, Len(c)) ELSE leaf_from(c, i - 1)

leaf(c) == leaf_from(c, Len(c))

\* a.endswith(short)
endswith(a, short) ==
  /\ Len(short) <= Len(a)
  /\ SubSeq(a, Len(a) - Len(short) + 1, Len(a)) = short

has_keyword(name) == \E k \in DOMAIN Keywords : contains(Keywords[k], name)

\* The least index at which the sequence of booleans hit is TRUE, or 0.
first_index(hit) ==
  IF \E i \in DOMAIN hit : hit[i]
  THEN CHOOSE i \in DOMAIN hit : hit[i] /\ \A j \in 1..(i - 1) : ~hit[j]
  ELSE 0

choose_var(candidates, available) ==
  IF candidates = << >>
  THEN LET k == first_index([i \in DOMAIN available |-> has_keyword(available[i])])
       IN  IF k # 0 THEN available[k] ELSE available[1]
  ELSE LET e == first_index([c \in DOMAIN candidates |->
                    \E i \in DOMAIN available : available[i] = candidates[c]])
           u == first_index([c \in DOMAIN candidates |->
                    \E i \in DOMAIN available :
                      endswith(available[i], leaf(candidates[c]))])
       IN  IF e # 0 THEN candidates[e]
           ELSE IF u # 0
           THEN available[first_index([i \in DOMAIN available |->
                    endswith(available[i], leaf(candidates[u]))])]
           ELSE available[1]

(***************************************************************************)
(* Ordinal date codes given to parse_julian_date.                          *)
(***************************************************************************)
Years == { 1900, 2000, 2023, 2024, 2025, 2100 }

ValidCodes ==
  { y * 1000 + ddd : y \in Years, ddd \in 1..366 } \
  { y * 1000 + 366 : y \in { yy \in Years : ~is_leap(yy) } }

(***************************************************************************)
(* The batch run (main of batch_process.py) and the conversions it starts. *)
(***************************************************************************)
VARIABLES
  outExists,        \* the output directory exists
  manifestExists,   \* {out}/manifest.json exists
  manifest,         \* manifest['overlays'] as persisted
  artifacts,        \* {out}/{id}/{date} directories holding a written artifact set
  runs,             \* batch runs started on this output directory
  folder,           \* the files of the source folder
  args,             \* parsed arguments: product, parallel, dry_run
  scriptExists,     \* hdf_to_overlay.py is beside batch_process.py
  pc,               \* position of main
  files_by_product,
  all_tasks,
  status,           \* per task: pending, queued, running, done, succeeded, failed
  outcome,          \* per task: the result its completed future holds
  success_count,
  fail_count,
  exit_status,      \* -1 while the process runs
  manifest_reads,   \* reads of the manifest file in this run
  manifest_writes   \* writes of the manifest file in this run

\* Two orders of merging two batches into one starting manifest.
VARIABLES
  cm0,              \* the starting manifest
  cA, cB,           \* the two batches (files_by_product of two runs)
  cAB, cBA,         \* the manifest merged in the order A, B and B, A
  cAgain,           \* cAB with an already merged batch merged once more
  cStep             \* merges done in each order

\* One call of apply_packed_scaling.
VARIABLES
  dArr,             \* the raw grid
  dAttrs,           \* the attribute mapping of the variable
  dOut,             \* the decoded grid
  dDone

\* One call of parse_julian_date.
VARIABLES
  jCode,            \* the ordinal date code
  jDate             \* the date returned, 0 before the call

\* One call of choose_var.
VARIABLES
  vCandidates,      \* the candidate variable paths of the product
  vAvailable,       \* the variable names the file lists
  vPick,            \* the name returned
  vDone

batch_vars == << outExists, manifestExists, manifest, artifacts, runs, folder,
                 args, scriptExists, pc, files_by_product, all_tasks, status,
                 outcome, success_count, fail_count, exit_status,
                 manifest_reads, manifest_writes >>

merge_vars == << cm0, cA, cB, cAB, cBA, cAgain, cStep >>

decode_vars == << dArr, dAttrs, dOut, dDone >>

date_vars == << jCode, jDate >>

choose_vars == << vCandidates, vAvailable, vPick, vDone >>

vars == << batch_vars, merge_vars, decode_vars, date_vars, choose_vars >>

other_vars == << merge_vars, decode_vars, date_vars, choose_vars >>

out_vars == << outExists, manifestExists, manifest, artifacts >>

Folders == { F \in SUBSET FileSet : Cardinality(F) <= MaxFiles }

\* folder.glob('*'): the files of the folder in any order.
Globs(F) ==
  { g \in [1..Cardinality(F) -> F] :
      \A i, j \in 1..Cardinality(F) : i # j => g[i] # g[j] }

ProductChoices == {"None", "viirs_ndvi"}

Outcomes == {"ok", "nonzero", "exception", "timeout"}

RECURSIVE flatten(_, _)
flatten(fbp, i) ==
  IF i > Len(fbp) THEN << >> ELSE fbp[i].files \o flatten(fbp, i + 1)

\* hdf_to_overlay.py: os.path.join(args.out_root, overlay_id, args.date)
out_dir(task) == << task.config.id, task.date >>

\* process_file: the tuple returned for the way subprocess.run ended.
process_file(task, result) ==
  IF result = "ok"
  THEN [success |-> TRUE, date |-> task.date, error |-> "None"]
  ELSE [success |-> FALSE, date |-> task.date, error |-> result]

\* The tally of main's loops with the failure branch counting nothing.
tally_dropping_failures(r, counts) ==
  IF r.success
  THEN [counts EXCEPT !.success = @ + 1]
  ELSE counts

\* The tally of main's loops: success_count += 1 or fail_count += 1.
tally(r, counts) ==
  IF r.success
  THEN [counts EXCEPT !.success = @ + 1]
  ELSE [counts EXCEPT !.fail = @ + 1]

\* Exit status with the no-match check returning normally.
exit_after_scan_ignoring_empty(script, fbp, dry_run) ==
  IF ~script THEN 1
  ELSE IF dry_run \/ fbp = << >> THEN 0
  ELSE -1

\* main up to dispatch: the status it exits with, or -1 when it goes on.
exit_after_scan(script, fbp, dry_run) ==
  IF ~script THEN 1
  ELSE IF fbp = << >> THEN 1
  ELSE IF dry_run THEN 0
  ELSE -1

\* End of main with the test fail_count > 1.
final_exit_status_lenient(fails) == IF fails > 1 THEN 1 ELSE 0

\* End of main: sys.exit(1) if fail_count > 0, else a normal return.
final_exit_status(fails) == IF fails > 0 THEN 1 ELSE 0

\* No merge experiment, decoder call or date call is under way.
MergeIdle ==
  /\ cm0 = << >> /\ cA = << >> /\ cB = << >>
  /\ cAB = << >> /\ cBA = << >> /\ cAgain = << >> /\ cStep = 0

DecodeIdle == dArr = << >> /\ dAttrs = NoneVal /\ dOut = << >> /\ dDone = FALSE

DateIdle == jCode = 0 /\ jDate = 0

ChooseIdle ==
  vCandidates = << >> /\ vAvailable = << >> /\ vPick = << >> /\ vDone = FALSE

BatchInit ==
  /\ outExists \in BOOLEAN
  /\ manifestExists = FALSE
  /\ manifest = << >>
  /\ artifacts = {}
  /\ runs = 0
  /\ folder = {}
  /\ args = [product |-> "None", parallel |-> 1, dry_run |-> FALSE]
  /\ scriptExists = TRUE
  /\ pc = "idle"
  /\ files_by_product = << >>
  /\ all_tasks = << >>
  /\ status = << >>
  /\ outcome = << >>
  /\ success_count = 0
  /\ fail_count = 0
  /\ exit_status = -1
  /\ manifest_reads = 0
  /\ manifest_writes = 0

Init == BatchInit /\ MergeIdle /\ DecodeIdle /\ DateIdle /\ ChooseIdle

\* The command is started on a folder.
StartRun ==
  /\ pc = "idle"
  /\ UNCHANGED other_vars
  /\ runs < MaxRuns
  /\ runs' = runs + 1
  /\ folder' \in Folders
  /\ args' \in [product : ProductChoices, parallel : 1..MaxParallel,
                dry_run : BOOLEAN]
  /\ scriptExists' \in BOOLEAN
  /\ pc' = "start"
  /\ files_by_product' = << >>
  /\ all_tasks' = << >>
  /\ status' = << >>
  /\ outcome' = << >>
  /\ success_count' = 0
  /\ fail_count' = 0
  /\ exit_status' = -1
  /\ manifest_reads' = 0
  /\ manifest_writes' = 0
  /\ UNCHANGED out_vars

\* main from the script check to the start of dispatch.
Scan ==
  /\ pc = "start"
  /\ UNCHANGED other_vars
  /\ \E glob \in Globs(folder) :
     LET fbp  == IF scriptExists THEN scan_folder(glob, args.product) ELSE << >>
         code == exit_after_scan(scriptExists, fbp, args.dry_run)
         tasks == flatten(fbp, 1)
     IN  /\ files_by_product' = fbp
         /\ exit_status' = code
         /\ IF code # -1
            THEN /\ pc' = "exit"
                 /\ UNCHANGED << all_tasks, status, outcome >>
            ELSE /\ pc' = IF args.parallel > 1 THEN "parallel" ELSE "sequential"
                 /\ all_tasks' = tasks
                 /\ status' = [i \in DOMAIN tasks |-> "pending"]
                 /\ outcome' = [i \in DOMAIN tasks |-> "none"]
  /\ UNCHANGED << out_vars, runs, folder, args, scriptExists, success_count,
                  fail_count, manifest_reads, manifest_writes >>

\* What the conversion subprocess of task i leaves on disk when it ends with o.
Converted(i, o) ==
  IF o = "ok"
  THEN /\ artifacts' = artifacts \cup { out_dir(all_tasks[i]) }
       /\ outExists' = TRUE
  ELSE /\ artifacts' = artifacts
       /\ \E made \in BOOLEAN : outExists' = (outExists \/ made)

\* main records the result of task i and leaves its loop at the first result.
Record_leaving_early(i, o) ==
  LET r == process_file(all_tasks[i], o)
      c == tally(r, [success |-> success_count, fail |-> fail_count])
  IN  /\ success_count' = c.success
      /\ fail_count' = c.fail
      /\ status' = [status EXCEPT ![i] = IF r.success THEN "succeeded" ELSE "failed"]
      /\ pc' = "update"

\* main records the result of task i.
Record(i, o) ==
  LET r == process_file(all_tasks[i], o)
      c == tally(r, [success |-> success_count, fail |-> fail_count])
  IN  /\ success_count' = c.success
      /\ fail_count' = c.fail
      /\ status' = [status EXCEPT ![i] = IF r.success THEN "succeeded" ELSE "failed"]
      /\ pc' = IF \A j \in DOMAIN status' : status'[j] \in {"succeeded", "failed"}
               THEN "update" ELSE pc

\* Sequential loop: process_file is called for the next task.
SeqCall ==
  /\ pc = "sequential"
  /\ UNCHANGED other_vars
  /\ \E i \in DOMAIN all_tasks :
       /\ status[i] = "pending"
       /\ \A j \in 1..(i - 1) : status[j] # "pending"
       /\ \A j \in DOMAIN all_tasks : status[j] # "running"
       /\ status' = [status EXCEPT ![i] = "running"]
  /\ UNCHANGED << out_vars, runs, folder, args, scriptExists, pc,
                  files_by_product, all_tasks, outcome, success_count,
                  fail_count, exit_status, manifest_reads, manifest_writes >>

\* Sequential loop: the call returns and the result is tallied.
SeqReturn ==
  /\ pc = "sequential"
  /\ UNCHANGED other_vars
  /\ \E i \in DOMAIN all_tasks, o \in Outcomes :
       /\ status[i] = "running"
       /\ Converted(i, o)
       /\ Record(i, o)
  /\ UNCHANGED << manifestExists, manifest, runs, folder, args, scriptExists,
                  outcome, files_by_product, all_tasks, exit_status, manifest_reads,
                  manifest_writes >>

\* Parallel branch: every task is submitted to the pool.
Submit ==
  /\ pc = "parallel"
  /\ UNCHANGED other_vars
  /\ status' = [i \in DOMAIN all_tasks |-> "queued"]
  /\ pc' = "collect"
  /\ UNCHANGED << out_vars, runs, folder, args, scriptExists, files_by_product,
                  all_tasks, outcome, success_count, fail_count, exit_status,
                  manifest_reads, manifest_writes >>

\* A free pool worker takes the oldest queued task and starts its subprocess.
WorkerStart ==
  /\ pc = "collect"
  /\ UNCHANGED other_vars
  /\ \E i \in DOMAIN all_tasks :
       /\ status[i] = "queued"
       /\ \A j \in 1..(i - 1) : status[j] # "queued"
       /\ Cardinality({ j \in DOMAIN all_tasks : status[j] = "running" })
            < args.parallel
       /\ status' = [status EXCEPT ![i] = "running"]
  /\ UNCHANGED << out_vars, runs, folder, args, scriptExists, pc,
                  files_by_product, all_tasks, outcome, success_count,
                  fail_count, exit_status, manifest_reads, manifest_writes >>

\* A worker's subprocess ends; its future completes.
WorkerFinish ==
  /\ pc = "collect"
  /\ UNCHANGED other_vars
  /\ \E i \in DOMAIN all_tasks, o \in Outcomes :
       /\ status[i] = "running"
       /\ outcome' = [outcome EXCEPT ![i] = o]
       /\ Converted(i, o)
       /\ status' = [status EXCEPT ![i] = "done"]
  /\ UNCHANGED << manifestExists, manifest, runs, folder, args, scriptExists, pc,
                  files_by_product, all_tasks, success_count, fail_count,
                  exit_status, manifest_reads, manifest_writes >>

\* as_completed yields a completed future and main tallies its result.
Collect ==
  /\ pc = "collect"
  /\ UNCHANGED other_vars
  /\ \E i \in DOMAIN all_tasks :
       /\ status[i] = "done"
       /\ Record(i, outcome[i])
       /\ outcome' = [outcome EXCEPT ![i] = "none"]
  /\ UNCHANGED << out_vars, runs, folder, args, scriptExists, files_by_product,
                  all_tasks, exit_status, manifest_reads,
                  manifest_writes >>

\* update_manifest(args.out, files_by_product): read, merge, write.  The write
\* raises when the output directory does not exist.
UpdateManifest ==
  /\ pc = "update"
  /\ UNCHANGED other_vars
  /\ LET read == IF manifestExists THEN manifest ELSE << >>
     IN  /\ manifest_reads' = manifest_reads + (IF manifestExists THEN 1 ELSE 0)
         /\ IF outExists
            THEN /\ manifest' = update_manifest(read, files_by_product)
                 /\ manifestExists' = TRUE
                 /\ manifest_writes' = manifest_writes + 1
                 /\ pc' = "summary"
                 /\ exit_status' = exit_status
            ELSE /\ UNCHANGED << manifest, manifestExists, manifest_writes >>
                 /\ pc' = "exit"
                 /\ exit_status' = 1
  /\ UNCHANGED << outExists, artifacts, runs, folder, args, scriptExists,
                  files_by_product, all_tasks, status, outcome, success_count,
                  fail_count >>

\* The summary is printed and the process ends.
Finish ==
  /\ pc = "summary"
  /\ UNCHANGED other_vars
  /\ exit_status' = final_exit_status(fail_count)
  /\ pc' = "exit"
  /\ UNCHANGED << out_vars, runs, folder, args, scriptExists, files_by_product,
                  all_tasks, status, outcome, success_count, fail_count,
                  manifest_reads, manifest_writes >>

\* The process has ended: its memory is gone, the output directory stays.
ProcessEnd ==
  /\ pc = "exit"
  /\ UNCHANGED other_vars
  /\ pc' = "idle"
  /\ folder' = {}
  /\ args' = [product |-> "None", parallel |-> 1, dry_run |-> FALSE]
  /\ scriptExists' = TRUE
  /\ files_by_product' = << >>
  /\ all_tasks' = << >>
  /\ status' = << >>
  /\ outcome' = << >>
  /\ success_count' = 0
  /\ fail_count' = 0
  /\ exit_status' = -1
  /\ manifest_reads' = 0
  /\ manifest_writes' = 0
  /\ UNCHANGED << out_vars, runs >>

Next ==
  \/ StartRun
  \/ Scan
  \/ SeqCall
  \/ SeqReturn
  \/ Submit
  \/ WorkerStart
  \/ WorkerFinish
  \/ Collect
  \/ UpdateManifest
  \/ Finish
  \/ ProcessEnd

Spec == Init /\ [][Next]_vars

(***************************************************************************)
(* One batch run on a fresh output directory.  Every dispatch step that    *)
(* stays possible is eventually taken: the subprocess of a conversion ends *)
(* or is killed at its timeout, the pool hands the queued tasks to free    *)
(* workers, and main's loops run on.                                       *)
(***************************************************************************)
FirstRun == runs = 0 /\ StartRun

DispatchStep ==
  SeqCall \/ SeqReturn \/ Submit \/ WorkerStart \/ WorkerFinish \/ Collect

BatchNext ==
  \/ FirstRun
  \/ Scan
  \/ SeqCall
  \/ SeqReturn
  \/ Submit
  \/ WorkerStart
  \/ WorkerFinish
  \/ Collect
  \/ UpdateManifest
  \/ Finish
  \/ ProcessEnd

SpecBatch == Init /\ [][BatchNext]_vars /\ WF_vars(DispatchStep)

(***************************************************************************)
(* update_manifest as a function: two batches merged in both orders.       *)
(***************************************************************************)
Batches ==
  { scan_folder(g, f) : g \in UNION { Globs(F) : F \in Folders },
                        f \in ProductChoices } \ { << >> }

StartManifests ==
  { << >> } \cup { update_manifest(<< >>, b) : b \in Batches }

BatchIdle ==
  /\ outExists = FALSE /\ manifestExists = FALSE /\ manifest = << >>
  /\ artifacts = {} /\ runs = 0 /\ folder = {}
  /\ args = [product |-> "None", parallel |-> 1, dry_run |-> FALSE]
  /\ scriptExists = TRUE /\ pc = "idle" /\ files_by_product = << >>
  /\ all_tasks = << >> /\ status = << >> /\ outcome = << >>
  /\ success_count = 0 /\ fail_count = 0 /\ exit_status = -1
  /\ manifest_reads = 0 /\ manifest_writes = 0

MergeInit ==
  /\ cm0 \in StartManifests
  /\ cA \in Batches
  /\ cB \in Batches
  /\ cAB = << >> /\ cBA = << >> /\ cAgain = << >> /\ cStep = 0
  /\ BatchIdle /\ DecodeIdle /\ DateIdle /\ ChooseIdle

MergeFirst ==
  /\ cStep = 0
  /\ cAB' = update_manifest(cm0, cA)
  /\ cBA' = update_manifest(cm0, cB)
  /\ cStep' = 1
  /\ UNCHANGED << cm0, cA, cB, cAgain, batch_vars, decode_vars, date_vars, choose_vars >>

MergeSecond ==
  /\ cStep = 1
  /\ cAB' = update_manifest(cAB, cB)
  /\ cBA' = update_manifest(cBA, cA)
  /\ cStep' = 2
  /\ UNCHANGED << cm0, cA, cB, cAgain, batch_vars, decode_vars, date_vars, choose_vars >>

MergeAgain ==
  /\ cStep = 2
  /\ \E b \in { cA, cB } : cAgain' = update_manifest(cAB, b)
  /\ cStep' = 3
  /\ UNCHANGED << cm0, cA, cB, cAB, cBA, batch_vars, decode_vars, date_vars, choose_vars >>

MergeNext == MergeFirst \/ MergeSecond \/ MergeAgain

SpecMerge == MergeInit /\ [][MergeNext]_vars

(***************************************************************************)
(* apply_packed_scaling on grids and attribute mappings.                   *)
(***************************************************************************)
DecodeInit ==
  /\ dArr \in Grids
  /\ dAttrs \in AttrChoices
  /\ dOut = << >>
  /\ dDone = FALSE
  /\ BatchIdle /\ MergeIdle /\ DateIdle /\ ChooseIdle

Decode ==
  /\ ~dDone
  /\ dOut' = apply_packed_scaling(dArr, dAttrs)
  /\ dDone' = TRUE
  /\ UNCHANGED << dArr, dAttrs, batch_vars, merge_vars, date_vars, choose_vars >>

DecodeNext == Decode

SpecDecode == DecodeInit /\ [][DecodeNext]_vars

(***************************************************************************)
(* parse_julian_date on the valid ordinal codes.                           *)
(***************************************************************************)
DateInit ==
  /\ jCode \in ValidCodes
  /\ jDate = 0
  /\ BatchIdle /\ MergeIdle /\ DecodeIdle /\ ChooseIdle

Parse ==
  /\ jDate = 0
  /\ jDate' = parse_julian_date(jCode)
  /\ UNCHANGED << jCode, batch_vars, merge_vars, decode_vars, choose_vars >>

DateNext == Parse

SpecDate == DateInit /\ [][DateNext]_vars

(***************************************************************************)
(* choose_var on candidate lists and non-empty lists of available names.   *)
(***************************************************************************)
ChooseInit ==
  /\ vCandidates \in NameLists(0)
  /\ vAvailable \in NameLists(1)
  /\ vPick = << >>
  /\ vDone = FALSE
  /\ BatchIdle /\ MergeIdle /\ DecodeIdle /\ DateIdle

Choose ==
  /\ ~vDone
  /\ vPick' = choose_var(vCandidates, vAvailable)
  /\ vDone' = TRUE
  /\ UNCHANGED << vCandidates, vAvailable, batch_vars, merge_vars,
                  decode_vars, date_vars >>

ChooseNext == Choose

SpecChoose == ChooseInit /\ [][ChooseNext]_vars

(***************************************************************************)
(* Properties.                                                             *)
(***************************************************************************)

\* The calendar, counted day by day.
GregorianLeap(y) == (y % 4 = 0 /\ y % 100 # 0) \/ y % 400 = 0

MonthLength(y, m) ==
  IF m = 2 THEN (IF GregorianLeap(y) THEN 29 ELSE 28)
  ELSE IF m \in {4, 6, 9, 11} THEN 30 ELSE 31

NextDay(t) ==
  IF t[3] < MonthLength(t[1], t[2]) THEN << t[1], t[2], t[3] + 1 >>
  ELSE IF t[2] < 12 THEN << t[1], t[2] + 1, 1 >>
  ELSE << t[1] + 1, 1, 1 >>

\* t advanced by k days, a month at a time where k runs past the month's end.
RECURSIVE Advance(_, _)
Advance(t, k) ==
  IF k = 0 THEN t
  ELSE IF t[3] + k <= MonthLength(t[1], t[2]) THEN << t[1], t[2], t[3] + k >>
  ELSE LET last == << t[1], t[2], MonthLength(t[1], t[2]) >>
       IN  Advance(NextDay(last), k - (MonthLength(t[1], t[2]) - t[3]) - 1)

RECURSIVE DaysBefore(_, _)
DaysBefore(y, m) == IF m = 1 THEN 0 ELSE DaysBefore(y, m - 1) + MonthLength(y, m - 1)

\* The fields of the date string YYYY-MM-DD.
DateYear(s) == s \div 10000
DateMonth(s) == (s \div 100) % 100
DateDay(s) == s % 100

DayOfYear(s) == DaysBefore(DateYear(s), DateMonth(s)) + DateDay(s)

\* C1: a call of update_manifest keeps every date a record held before it:
\* the record of a product of the run holds afterwards exactly the union of its
\* earlier dates and the run's dates for that product id, and the record of a
\* product the run did not touch is unchanged.
RunDates(id) ==
  { all_tasks[i].date : i \in { j \in DOMAIN all_tasks : all_tasks[j].config.id = id } }

C1_Kept ==
  \A k \in DOMAIN manifest :
    /\ k \in DOMAIN manifest'
    /\ manifest'[k].id = manifest[k].id
    /\ seq_set(manifest[k].dates) \subseteq seq_set(manifest'[k].dates)
    /\ seq_set(manifest'[k].dates) =
         seq_set(manifest[k].dates) \cup RunDates(manifest[k].id)
    /\ RunDates(manifest[k].id) = {} => manifest'[k] = manifest[k]

C1_UnionNeverReplaces ==
  [][ IF pc = "update" /\ pc' = "summary" THEN C1_Kept
      ELSE manifest' = manifest ]_vars

\* A later run has merged into a record that held a date the run did not produce.
C1_Witness ==
  /\ pc = "summary"
  /\ runs >= 2
  /\ \E k \in DOMAIN manifest :
       /\ RunDates(manifest[k].id) # {}
       /\ seq_set(manifest[k].dates) \ RunDates(manifest[k].id) # {}
  /\ \E k \in DOMAIN manifest : RunDates(manifest[k].id) = {}

\* C2: the dates of every manifest record are in ascending order without a
\* duplicate, also in a record inserted for a product id that is new.
C2_DatesSortedUnique ==
  \A k \in DOMAIN manifest :
    \A i, j \in DOMAIN manifest[k].dates :
      i < j => manifest[k].dates[i] < manifest[k].dates[j]

\* C3: merging batch A then B gives every product id the same date set as
\* merging B then A, and merging an already merged batch again changes no
\* product's date set.
DateSets(overlays) ==
  { << overlays[k].id, seq_set(overlays[k].dates) >> : k \in DOMAIN overlays }

C3_MergeCommutesIdempotent ==
  /\ cStep >= 2 => DateSets(cAB) = DateSets(cBA)
  /\ cStep = 3 => DateSets(cAgain) = DateSets(cAB)

\* Two different batches with dates of one product were merged into a manifest
\* that already held that product, and one was merged again.
C3_Witness ==
  /\ cStep = 3
  /\ cm0 # << >>
  /\ \E a \in DOMAIN cA, b \in DOMAIN cB, k \in DOMAIN cm0 :
       /\ cA[a].key = cB[b].key
       /\ cm0[k].id = cA[a].files[1].config.id
       /\ seq_set(dates_of(cA[a].files)) # seq_set(dates_of(cB[b].files))
       /\ seq_set(dates_of(cB[b].files)) \ seq_set(cm0[k].dates) # {}

\* C4: every (product id, date) the manifest lists is one whose conversion
\* succeeded and wrote its artifact set.
C4_ManifestOnlySucceeded ==
  \A k \in DOMAIN manifest :
    \A d \in seq_set(manifest[k].dates) : << manifest[k].id, d >> \in artifacts

\* C5: the batch exits with status 0 exactly when at least one file was
\* classified and no dispatched conversion failed.
C5_ExitStatus ==
  pc = "exit" =>
    (exit_status = 0 <=>
       /\ files_by_product # << >>
       /\ \A i \in DOMAIN status : status[i] = "succeeded")

\* A batch in which one conversion succeeded and another failed has exited.
C5_Witness ==
  /\ pc = "exit"
  /\ exit_status = 1
  /\ \E i, j \in DOMAIN status : status[i] = "succeeded" /\ status[j] = "failed"

\* C6: when the scan classifies no file, the batch exits with the
\* no-files-found status, dispatches nothing and leaves the manifest and the
\* output directory as they were.
suffix_accepted(f) == lower(f.suffix) \in {".h5", ".hdf", ".hdf5"}

known_product(f) ==
  \E k \in DOMAIN PRODUCT_PATTERNS : PRODUCT_PATTERNS[k].pattern = f.prefix

passes_filter(f, product) ==
  \/ product = "None"
  \/ \E k \in DOMAIN PRODUCT_PATTERNS :
       /\ PRODUCT_PATTERNS[k].pattern = f.prefix
       /\ PRODUCT_PATTERNS[k].key = product

NothingClassified ==
  \A f \in folder :
    ~(suffix_accepted(f) /\ known_product(f) /\ passes_filter(f, args.product))

C6_NoFilesNoEffect ==
  [][ (pc = "start" /\ scriptExists /\ NothingClassified) =>
        /\ pc' = "exit"
        /\ exit_status' = 1
        /\ all_tasks' = << >>
        /\ manifest_reads' = 0
        /\ manifest_writes' = 0
        /\ UNCHANGED << manifest, manifestExists, artifacts, outExists >> ]_vars

\* A run over a folder of unmatched files has exited beside an existing manifest.
C6_Witness ==
  /\ pc = "exit"
  /\ scriptExists
  /\ folder # {}
  /\ NothingClassified
  /\ manifestExists
  /\ manifest # << >>

\* C7: once dispatch has begun, the batch reaches the manifest update with
\* every task succeeded or failed and success_count + fail_count equal to the
\* number of tasks, whatever the outcomes of the conversions are.
Dispatching == pc \in {"sequential", "parallel", "collect"}

AllTallied ==
  /\ pc = "update"
  /\ \A i \in DOMAIN all_tasks : status[i] \in {"succeeded", "failed"}
  /\ success_count + fail_count = Len(all_tasks)
  /\ success_count = Cardinality({ i \in DOMAIN status : status[i] = "succeeded" })
  /\ fail_count = Cardinality({ i \in DOMAIN status : status[i] = "failed" })

C7_EveryTaskSettles == Dispatching ~> AllTallied

\* A conversion that timed out is held as a failure while another task of the
\* batch has succeeded.
C7_Witness ==
  /\ \E i, j \in DOMAIN all_tasks :
       /\ status[i] = "done" /\ outcome[i] = "timeout"
       /\ status[j] = "succeeded"

\* C8: no two conversions in flight at the same time write to the same
\* output subdirectory.
C8_DisjointOutputDirs ==
  \A i, j \in DOMAIN all_tasks :
    (i # j /\ status[i] = "running" /\ status[j] = "running")
      => out_dir(all_tasks[i]) # out_dir(all_tasks[j])

\* C9: a cell whose raw value equals the fill value, or lies outside the
\* two-element valid range, is not-a-number in the decoded grid.
HasFill(attrs) ==
  \/ attrs.FillValue.kind = "num"
  \/ attrs.FillValue.kind = "seq" /\ Len(attrs.FillValue.v) > 0

FillOf(attrs) ==
  IF attrs.FillValue.kind = "num" THEN attrs.FillValue ELSE attrs.FillValue.v[1]

IsFill(raw, attrs) ==
  HasFill(attrs) /\ raw * FillOf(attrs).d = FillOf(attrs).n

OutOfRange(raw, attrs) ==
  /\ attrs.valid_range.kind = "seq"
  /\ Len(attrs.valid_range.v) = 2
  /\ \/ raw * attrs.valid_range.v[1].d < attrs.valid_range.v[1].n
     \/ raw * attrs.valid_range.v[2].d > attrs.valid_range.v[2].n

C9_MaskedCellsAreNaN ==
  dDone =>
    \A i \in DOMAIN dArr :
      (IsFill(dArr[i], dAttrs) \/ OutOfRange(dArr[i], dAttrs)) => dOut[i].nan

\* C10: for a valid code YYYYDDD the date returned is January 1 of YYYY
\* advanced by DDD - 1 days, and its day of year is DDD in the year YYYY; the
\* detector gives a VNP13C2 file name with that code the same date.
C10_JulianRoundTrip ==
  jDate # 0 =>
    LET yyyy == jCode \div 1000
        ddd  == jCode % 1000
        t    == Advance(<< yyyy, 1, 1 >>, ddd - 1)
    IN  /\ jDate = t[1] * 10000 + t[2] * 100 + t[3]
        /\ DateYear(jDate) = yyyy
        /\ DayOfYear(jDate) = ddd
        /\ jCode = 2024001 => jDate = 20240101
        /\ jCode = 2024366 => jDate = 20241231
        /\ jCode = 2025213 => jDate = 20250801
        /\ LET det == detect_product([prefix |-> "VNP13C2", code |-> jCode,
                                      ver |-> 2, suffix |-> ".h5"])
           IN  det[1] = "viirs_ndvi" /\ det[3] = jDate

\* The last day of a leap year has been decoded.
C10_Witness == jCode = 2024366 /\ jDate = 20241231

\* C11 (as stated): a batch run that dispatched conversions has read the
\* manifest file once and written it once when it exits.
C11_ReadAndWrittenExactlyOnce ==
  (pc = "exit" /\ all_tasks # << >>) =>
    (manifest_reads = 1 /\ manifest_writes = 1)

\* C11 (amended): the manifest file is touched only by main's update step,
\* which is taken once, when every dispatched conversion has succeeded or
\* failed and none is in flight; that step reads the file once if it exists
\* and not at all otherwise, and a run in which a conversion succeeded writes
\* the file exactly once.
ManifestTouched ==
  \/ manifest' # manifest
  \/ manifestExists' # manifestExists
  \/ manifest_reads' > manifest_reads
  \/ manifest_writes' > manifest_writes

C11_ManifestOnceAfterAll ==
  [][ /\ ManifestTouched =>
           /\ pc = "update"
           /\ all_tasks # << >>
           /\ \A i \in DOMAIN all_tasks : status[i] \in {"succeeded", "failed"}
           /\ manifest_reads = 0
           /\ manifest_writes = 0
           /\ manifest_reads' = (IF manifestExists THEN 1 ELSE 0)
           /\ manifest_writes' <= 1
      /\ (pc' = "exit" /\ success_count' >= 1) => manifest_writes' = 1 ]_vars

\* A pool run of two conversions has read and rewritten an existing manifest.
C11_Witness ==
  /\ pc = "summary"
  /\ args.parallel > 1
  /\ Len(all_tasks) >= 2
  /\ manifest_reads = 1
  /\ manifest_writes = 1

\* The names each tier of the stated fallback allows.  The suffix tier allows
\* the first matching name in the order of the available list and the first
\* one for the first candidate that has any.
ExactPicks(candidates, available) ==
  { candidates[i] : i \in { j \in DOMAIN candidates :
      /\ candidates[j] \in seq_set(available)
      /\ \A h \in 1..(j - 1) : candidates[h] \notin seq_set(available) } }

LeafEnds(a, c) ==
  \E n \in 0..Len(c) :
    /\ n <= Len(a)
    /\ \A h \in 1..n : c[Len(c) - n + h] # "/" /\ a[Len(a) - n + h] = c[Len(c) - n + h]
    /\ (n = Len(c) \/ c[Len(c) - n] = "/")

SuffixPicks(candidates, available) ==
  { available[i] : i \in { j \in DOMAIN available :
      \/ /\ \E c \in DOMAIN candidates : LeafEnds(available[j], candidates[c])
         /\ \A h \in 1..(j - 1) :
              \A c \in DOMAIN candidates : ~LeafEnds(available[h], candidates[c])
      \/ \E c \in DOMAIN candidates :
           /\ LeafEnds(available[j], candidates[c])
           /\ \A h \in 1..(j - 1) : ~LeafEnds(available[h], candidates[c])
           /\ \A b \in 1..(c - 1) : \A h \in DOMAIN available :
                ~LeafEnds(available[h], candidates[b]) } }

NamesKeyword(a) ==
  \E i \in DOMAIN a : a[i] \in {"NDVI", "EVI"}

KeywordPicks(available) ==
  { available[i] : i \in { j \in DOMAIN available :
      /\ NamesKeyword(available[j])
      /\ \A h \in 1..(j - 1) : ~NamesKeyword(available[h]) } }

ClaimedPicks(candidates, available) ==
  IF ExactPicks(candidates, available) # {}
  THEN ExactPicks(candidates, available)
  ELSE IF SuffixPicks(candidates, available) # {}
  THEN SuffixPicks(candidates, available)
  ELSE IF KeywordPicks(available) # {}
  THEN KeywordPicks(available)
  ELSE { available[1] }

\* C12: choose_var with a non-empty available list returns the first candidate that is an available name;
\* else an available name that ends with the leaf of a candidate (the first
\* such name, or the first one for the first candidate that has any); else the
\* first available name that contains a keyword; else the first available name.
C12_OrderedFallback ==
  vDone => vPick \in ClaimedPicks(vCandidates, vAvailable)

====
